---- MODULE Spec2Model ----
(***************************************************************************)
(* Process-Scheduling-Simulator: the job registry (add_process), the four  *)
(* policy runs (run_fcfs, run_sjf_preemptive, run_priority_preemptive,     *)
(* run_round_robin), calculate_metrics and compare_all_algorithms of       *)
(* src/scheduling_simulator.c, as a state machine.  A handler that loops   *)
(* is modelled by a Start step, one step per loop iteration, and a Finish  *)
(* step; pc and run say where the program is.                              *)
(***************************************************************************)
EXTENDS Integers, Sequences, FiniteSets, TLC

\* ---------------------------------------------------------------- bounds
\* Largest number of jobs the model registers (the registry itself holds
\* MAX_PROCESSES).
MaxJobs == 2
\* The numbers typed at add_process's prompts: arrival in -1..InArrival, burst
\* in 0..InBurst, priority -1 or 0 (and, at each prompt, text that is no number).
InArrival == 0
InBurst == 3
\* The registries a single run is explored on: up to MaxJobs jobs, arrival in
\* 0..MaxArrival, burst in 1..MaxBurst, priority in 0..MaxPriority.
MaxArrival == 2
MaxBurst == 2
MaxPriority == 1
\* The numbers typed at run_round_robin's prompt: -1..MaxQuantum.
MaxQuantum == 2

\* ------------------------------------------------------ program constants
MAX_PROCESSES == 100
INT_MAX == 2147483647
NULL == 0

\* -------------------------------------------------------------- variables
VARIABLES
    processes,        \* Process processes[MAX_PROCESSES], slots 1..process_count
    process_count,
    next_pid,
    heap,             \* the malloc'ed blocks not yet freed
    choice,           \* handle_user_choice: the last menu choice read
    scanned,          \* the tokens the current handler has read with scanf
    report,           \* what the current handler has reported on the console
    pc,               \* "menu" | "compare" | "loop" | "done" | "aborted"
    run,              \* the policy whose run is in progress, or "none"
    pending,          \* compare_all_algorithms: the runs it has still to call
    procs,            \* the run's working copy
    gantt_chart,      \* the run's slices, gantt_count = Len(gantt_chart)
    current_time,
    completed_count,
    last_pid,
    fcfs_i,           \* run_fcfs: the loop index i
    time_quantum,
    ready_queue,      \* run_round_robin: the slots written so far
    front,
    rear,
    in_queue          \* the pids p with in_queue[p] = true

regVars == <<processes, process_count, next_pid>>
ioVars == <<choice, scanned, report>>
rrVars == <<time_quantum, ready_queue, front, rear, in_queue>>
runVars == <<procs, gantt_chart, current_time, completed_count, last_pid, fcfs_i>>
vars == <<regVars, heap, ioVars, pc, run, pending, runVars, rrVars>>

\* ----------------------------------------------------------------- input
\* A token read by scanf("%d", &x): ok is FALSE when the text is no integer.
Token(x) == [ok |-> TRUE, v |-> x]
BadToken == [ok |-> FALSE, v |-> 0]
Tokens(lo, hi) == {BadToken} \cup {Token(x) : x \in lo..hi}

\* The values an indeterminate int is observed to hold: a negative one, zero,
\* a large one.
IndetValues == {-1, 0, INT_MAX}

\* ready_queue before anything is written to it.
EmptyQueue == [x \in {} |-> 0]

\* ------------------------------------------------------------- the registry
\* add_process leaves completion_time, waiting_time and turnaround_time of its
\* local Process unset: undef names the fields that hold an indeterminate value
\* (their number in the record is then a placeholder that nothing reads).
NewProcess(pid, a, b, p) ==
    [pid |-> pid, arrival_time |-> a, burst_time |-> b, priority |-> p,
     remaining_time |-> b, completion_time |-> 0, waiting_time |-> 0,
     turnaround_time |-> 0, memory_block |-> pid, is_completed |-> FALSE,
     undef |-> {"completion_time", "waiting_time", "turnaround_time"}]

\* The capacity test off by one: the registry takes a job it has no slot for.
OverCapacity == process_count > MAX_PROCESSES
AtCapacity == process_count >= MAX_PROCESSES

InvalidArrival(t) == ~t.ok \/ t.v < 0
InvalidBurst(t) == ~t.ok \/ t.v <= 0
InvalidPriority(t) == ~t.ok \/ t.v < 0
\* The quantum test letting 0 through.
NegativeQuantum(t) == ~t.ok \/ t.v < 0
InvalidQuantum(t) == ~t.ok \/ t.v <= 0

\* The model registers a job only into the first MaxJobs slots of the registry
\* and into its last MaxJobs slots.
MayGrow == process_count < MaxJobs \/ process_count >= MAX_PROCESSES - MaxJobs

\* A rejection that still uses up the pid it announced.
RejectAndSkipPid(why, read) ==
    /\ report' = why
    /\ scanned' = read
    /\ next_pid' = next_pid + 1
    /\ UNCHANGED <<processes, process_count, heap>>

\* add_process returning at its capacity test or at one of its three prompts.
Reject(why, read) ==
    /\ report' = why
    /\ scanned' = read
    /\ UNCHANGED <<regVars, heap>>

\* add_process with a, b and p typed at its prompts; a prompt is reached only
\* when the ones before it were answered with valid numbers.
add_process ==
    /\ pc = "menu"
    /\ choice' = 1
    /\ UNCHANGED <<pc, run, pending, runVars, rrVars>>
    /\ IF AtCapacity
       THEN Reject("capacity", <<>>)
       ELSE \E a \in Tokens(-1, InArrival) :
            IF InvalidArrival(a)
            THEN Reject("invalid_arrival", <<a>>)
            ELSE \E b \in Tokens(0, InBurst) :
                 IF InvalidBurst(b)
                 THEN Reject("invalid_burst", <<a, b>>)
                 ELSE \E p \in Tokens(-1, 0) :
                      IF InvalidPriority(p)
                      THEN Reject("invalid_priority", <<a, b, p>>)
                      ELSE /\ MayGrow
                           /\ processes' = Append(processes,
                                               NewProcess(next_pid, a.v, b.v, p.v))
                           /\ process_count' = process_count + 1
                           /\ next_pid' = next_pid + 1
                           /\ heap' = heap \cup {next_pid}
                           /\ report' = "added"
                           /\ scanned' = <<a, b, p>>

\* ------------------------------------------------------- shared helpers
\* reset_process_state: every registry slot back to its pre-run values.
reset_process_state ==
    [i \in 1..process_count |->
        [processes[i] EXCEPT !.remaining_time = processes[i].burst_time,
                             !.is_completed = FALSE,
                             !.completion_time = 0,
                             !.turnaround_time = 0,
                             !.waiting_time = 0,
                             !.undef = {}]]

\* copy_processes(dest, src, n): the value of dest[0..n-1].
copy_processes(src, n) ==
    [i \in 1..n |-> [src[i] EXCEPT !.remaining_time = src[i].burst_time,
                                   !.is_completed = FALSE]]

Swap(a, j, k) == [a EXCEPT ![j] = a[k], ![k] = a[j]]

\* The exchange test that also exchanges equal neighbours (an unstable sort).
OutOfOrderOrEqual(x, y) == x >= y

\* The test that makes the bubble sort exchange two neighbours.
OutOfOrder(x, y) == x > y

\* The bubble sort of the source, on field f: for i in 0..n-2, for j in
\* 0..n-i-2, exchange a[j] and a[j+1] when out of order (slots are 1-based here).
RECURSIVE BubbleInner(_, _, _, _, _)
BubbleInner(a, n, f, i, j) ==
    IF j >= n - i - 1 THEN a
    ELSE BubbleInner(IF OutOfOrder(a[j + 1][f], a[j + 2][f])
                     THEN Swap(a, j + 1, j + 2) ELSE a,
                     n, f, i, j + 1)

RECURSIVE BubbleOuter(_, _, _, _)
BubbleOuter(a, n, f, i) ==
    IF i >= n - 1 THEN a ELSE BubbleOuter(BubbleInner(a, n, f, i, 0), n, f, i + 1)

SortByArrival(a, n) == BubbleOuter(a, n, "arrival_time", 0)
SortByPid(a, n) == BubbleOuter(a, n, "pid", 0)

\* simulate_memory_free(&p): what free() may do with p's block.  Freeing a block
\* that is not allocated any more is undefined: the allocator either goes on or
\* aborts the program.
FreeOutcomes(p) ==
    IF p.memory_block # NULL /\ p.memory_block \notin heap
    THEN {"ok", "abort"} ELSE {"ok"}

HeapAfterFree(p) == heap \ {p.memory_block}

\* The jobs of ps whose completion_time is still indeterminate.
Unset(ps) == {i \in DOMAIN ps : "completion_time" \in ps[i].undef}

\* calculate_metrics(procs, n); g gives the value read from each indeterminate
\* completion_time.  The inner loop finds the registry slot with the same pid.
RegistrySlot(pid) == CHOOSE j \in 1..process_count :
    /\ processes[j].pid = pid
    /\ \A k \in 1..(j - 1) : processes[k].pid # pid

calculate_metrics(ps, n, g) ==
    [i \in 1..n |->
        IF \E j \in 1..process_count : processes[j].pid = ps[i].pid
        THEN LET ct == IF i \in Unset(ps) THEN g[i] ELSE ps[i].completion_time
                 tat == ct - ps[i].arrival_time
             IN [ps[i] EXCEPT !.completion_time = ct,
                              !.turnaround_time = tat,
                              !.waiting_time = tat - processes[RegistrySlot(ps[i].pid)].burst_time,
                              !.undef = {}]
        ELSE ps[i]]

\* print_results_table sorts the working copy by pid before it prints it.
print_results_table(ps, n) == SortByPid(ps, n)

\* The empty-registry test that never holds.
NeverEmpty == process_count < 0
NoProcesses == process_count = 0

\* A run is called from the menu, or by compare_all_algorithms in its turn.
Callable(name) ==
    \/ pc = "menu"
    \/ pc = "compare" /\ pending # <<>> /\ Head(pending) = name

\* The menu choice that is current while a handler runs.
ChoiceOf(n) == IF pc = "menu" THEN n ELSE choice
PendingAfterCall == IF pc = "menu" THEN pending ELSE Tail(pending)
\* Where control is once a run called with PendingAfterCall has returned.
AfterReturn(pend) == IF pend = <<>> THEN "menu" ELSE "compare"

ClearLocals ==
    /\ procs' = <<>>
    /\ gantt_chart' = <<>>
    /\ current_time' = 0
    /\ completed_count' = 0
    /\ last_pid' = -1
    /\ fcfs_i' = 0
    /\ time_quantum' = 0
    /\ ready_queue' = EmptyQueue
    /\ front' = -1
    /\ rear' = -1
    /\ in_queue' = {}

\* The empty-registry return shared by the four runs.
ReturnEmpty(n) ==
    /\ report' = "no_processes"
    /\ scanned' = <<>>
    /\ choice' = ChoiceOf(n)
    /\ pending' = PendingAfterCall
    /\ pc' = AfterReturn(PendingAfterCall)
    /\ UNCHANGED <<regVars, heap, run, runVars, rrVars>>

\* A run's last step: calculate_metrics, print_results_table, print_gantt_chart.
FinishRun(chart) ==
    /\ \E g \in [Unset(procs) -> IndetValues] :
          procs' = print_results_table(calculate_metrics(procs, process_count, g),
                                       process_count)
    /\ gantt_chart' = chart
    /\ report' = "results"
    /\ pc' = "done"

\* ------------------------------------------------------------------- FCFS
run_fcfs_start ==
    /\ Callable("fcfs")
    /\ IF NoProcesses
       THEN ReturnEmpty(2)
       ELSE /\ procs' = SortByArrival(copy_processes(processes, process_count),
                                      process_count)
            /\ gantt_chart' = <<>>
            /\ current_time' = 0
            /\ fcfs_i' = 0
            /\ pc' = "loop"
            /\ run' = "fcfs"
            /\ choice' = ChoiceOf(2)
            /\ pending' = PendingAfterCall
            /\ scanned' = <<>>
            /\ report' = "none"
            /\ UNCHANGED <<regVars, heap, completed_count, last_pid, rrVars>>

\* One iteration of the loop of lines 198-214.
run_fcfs_step ==
    /\ pc = "loop" /\ run = "fcfs"
    /\ fcfs_i < process_count
    /\ LET i == fcfs_i + 1
           start == IF current_time < procs[i].arrival_time
                    THEN procs[i].arrival_time ELSE current_time
           end == start + procs[i].burst_time
       IN /\ gantt_chart' = Append(gantt_chart,
                [pid |-> procs[i].pid, start_time |-> start, end_time |-> end,
                 undef |-> {}])
          /\ current_time' = end
          /\ procs' = [procs EXCEPT ![i].completion_time = end,
                                    ![i].undef = @ \ {"completion_time"},
                                    ![i].memory_block = NULL]
          /\ heap' = HeapAfterFree(procs[i])
          /\ \E o \in FreeOutcomes(procs[i]) :
                pc' = IF o = "abort" THEN "aborted" ELSE "loop"
    /\ fcfs_i' = fcfs_i + 1
    /\ UNCHANGED <<regVars, ioVars, run, pending, completed_count, last_pid, rrVars>>

run_fcfs_finish ==
    /\ pc = "loop" /\ run = "fcfs"
    /\ fcfs_i >= process_count
    /\ FinishRun(gantt_chart)
    /\ UNCHANGED <<regVars, heap, choice, scanned, run, pending, current_time,
                   completed_count, last_pid, fcfs_i, rrVars>>

\* -------------------------------------------------- preemptive SJF, priority
\* The selection tests that let a later job of equal value win.
ShorterOrEqual(x, min) == x <= min
MoreUrgentOrEqual(x, min) == x <= min

\* The tests of lines 247 and 315: job i replaces the best one found so far.
Shorter(x, min) == x < min
MoreUrgent(x, min) == x < min

\* The selection loop without its test of is_completed: a finished job stays
\* selectable.
RECURSIVE SelectFromArrived(_, _, _, _, _, _, _)
SelectFromArrived(ps, n, t, f, i, best, min) ==
    IF i > n THEN best
    ELSE IF /\ ps[i].arrival_time <= t
            /\ ps[i][f] < min
         THEN SelectFromArrived(ps, n, t, f, i + 1, i, ps[i][f])
         ELSE SelectFromArrived(ps, n, t, f, i + 1, best, min)

\* The selection loop of lines 245-252 (f = "remaining_time", Shorter) and of
\* lines 313-320 (f = "priority", MoreUrgent): the slot chosen, 0 when no job
\* has arrived and is unfinished (the source's -1).
RECURSIVE SelectFrom(_, _, _, _, _, _, _)
SelectFrom(ps, n, t, f, i, best, min) ==
    IF i > n THEN best
    ELSE IF /\ ps[i].arrival_time <= t
            /\ ~ps[i].is_completed
            /\ IF f = "remaining_time" THEN Shorter(ps[i][f], min)
                                       ELSE MoreUrgent(ps[i][f], min)
         THEN SelectFrom(ps, n, t, f, i + 1, i, ps[i][f])
         ELSE SelectFrom(ps, n, t, f, i + 1, best, min)

shortest_job_idx == SelectFrom(procs, process_count, current_time, "remaining_time", 1, 0, INT_MAX)
highest_priority_idx == SelectFrom(procs, process_count, current_time, "priority", 1, 0, INT_MAX)

\* Lines 262-269 and 329-334: the chart once job pid is chosen at current_time.
\* A slice is opened with its end_time unset; the end_time of the slice before
\* it is written then.
ChartAfterSelect(pid) ==
    IF last_pid # pid
    THEN Append(IF Len(gantt_chart) > 0
                THEN [gantt_chart EXCEPT ![Len(gantt_chart)].end_time = current_time,
                                         ![Len(gantt_chart)].undef = {}]
                ELSE gantt_chart,
                [pid |-> pid, start_time |-> current_time, end_time |-> 0,
                 undef |-> {"end_time"}])
    ELSE gantt_chart

\* Lines 283 and 348: gantt_chart[gantt_count-1].end_time = current_time.
ChartClosed ==
    [gantt_chart EXCEPT ![Len(gantt_chart)].end_time = current_time,
                        ![Len(gantt_chart)].undef = {}]

PreemptiveStart(name, n) ==
    /\ Callable(name)
    /\ IF NoProcesses
       THEN ReturnEmpty(n)
       ELSE /\ procs' = copy_processes(processes, process_count)
            /\ gantt_chart' = <<>>
            /\ current_time' = 0
            /\ completed_count' = 0
            /\ last_pid' = -1
            /\ pc' = "loop"
            /\ run' = name
            /\ choice' = ChoiceOf(n)
            /\ pending' = PendingAfterCall
            /\ scanned' = <<>>
            /\ report' = "none"
            /\ UNCHANGED <<regVars, heap, fcfs_i, rrVars>>

\* One iteration of the while loop of lines 240-282 / 308-347 with slot idx chosen.
PreemptiveTick(name, idx) ==
    /\ pc = "loop" /\ run = name
    /\ completed_count < process_count
    /\ IF idx = 0
       THEN /\ current_time' = current_time + 1
            /\ UNCHANGED <<procs, gantt_chart, completed_count, last_pid, heap, pc>>
       ELSE LET left == procs[idx].remaining_time - 1
                now == current_time + 1
            IN /\ gantt_chart' = ChartAfterSelect(procs[idx].pid)
               /\ current_time' = now
               /\ IF left = 0
                  THEN /\ procs' = [procs EXCEPT ![idx].remaining_time = left,
                                                 ![idx].completion_time = now,
                                                 ![idx].undef = @ \ {"completion_time"},
                                                 ![idx].is_completed = TRUE,
                                                 ![idx].memory_block = NULL]
                       /\ completed_count' = completed_count + 1
                       /\ last_pid' = -1
                       /\ heap' = HeapAfterFree(procs[idx])
                       /\ \E o \in FreeOutcomes(procs[idx]) :
                             pc' = IF o = "abort" THEN "aborted" ELSE "loop"
                  ELSE /\ procs' = [procs EXCEPT ![idx].remaining_time = left]
                       /\ last_pid' = procs[idx].pid
                       /\ UNCHANGED <<completed_count, heap, pc>>
    /\ UNCHANGED <<regVars, ioVars, run, pending, fcfs_i, rrVars>>

PreemptiveFinish(name) ==
    /\ pc = "loop" /\ run = name
    /\ completed_count >= process_count
    /\ FinishRun(ChartClosed)
    /\ UNCHANGED <<regVars, heap, choice, scanned, run, pending, current_time,
                   completed_count, last_pid, fcfs_i, rrVars>>

run_sjf_start == PreemptiveStart("sjf", 3)
run_sjf_tick == PreemptiveTick("sjf", shortest_job_idx)
run_sjf_finish == PreemptiveFinish("sjf")

run_priority_start == PreemptiveStart("priority", 4)
run_priority_tick == PreemptiveTick("priority", highest_priority_idx)
run_priority_finish == PreemptiveFinish("priority")

\* ------------------------------------------------------- the slice buffer
\* GanttEntry gantt_chart[MAX_PROCESSES * 2] in run_fcfs, [MAX_PROCESSES * 10]
\* in the other three runs.
GanttCapacity(name) ==
    IF name = "fcfs" THEN MAX_PROCESSES * 2 ELSE MAX_PROCESSES * 10

\* gantt_chart[gantt_count] = ... with gantt_count at or past the capacity is a
\* write outside the array, which is undefined: the write lands in memory
\* nothing uses and the run goes on, or the program is stopped, or the write
\* lands on the local that follows the array (pid, arrival_time and burst_time
\* of procs[0], where the build at hand puts it).
SliceWriteOutcomes(name) ==
    IF Len(gantt_chart) >= GanttCapacity(name)
    THEN {"ok", "abort", "clobber"} ELSE {"ok"}

AfterSliceWrite(ps, e, w) ==
    IF w = "clobber"
    THEN [ps EXCEPT ![1].pid = e.pid,
                    ![1].arrival_time = e.start_time,
                    ![1].burst_time = e.end_time]
    ELSE ps

\* ------------------------------------------------------------ Round-Robin
\* The ready queue as one value: the circular buffer, front, rear, in_queue.
Queue == [rq |-> ready_queue, front |-> front, rear |-> rear, inq |-> in_queue]

\* Lines 397-400, 427-430, 441-444: slot idx (of pid) goes to the tail.
Enqueue(q, idx, pid) ==
    LET r == (q.rear + 1) % MAX_PROCESSES
    IN [rq |-> [x \in DOMAIN q.rq \cup {r} |-> IF x = r THEN idx ELSE q.rq[x]],
        front |-> IF q.front = -1 THEN 0 ELSE q.front,
        rear |-> r,
        inq |-> q.inq \cup {pid}]

\* The arrival test with < for <=: a job is seen one tick after it arrives.
ArrivedEarlier(ps, i, t, inq) ==
    /\ ~ps[i].is_completed
    /\ ps[i].arrival_time < t
    /\ ps[i].pid \notin inq

\* The test of lines 396 and 426 on slot i at time t.
Arrived(ps, i, t, inq) ==
    /\ ~ps[i].is_completed
    /\ ps[i].arrival_time <= t
    /\ ps[i].pid \notin inq

\* The scans of lines 395-402 and 425-432, from slot i on.
RECURSIVE EnqueueArrived(_, _, _, _, _)
EnqueueArrived(q, ps, n, t, i) ==
    IF i > n THEN q
    ELSE EnqueueArrived(IF Arrived(ps, i, t, q.inq) THEN Enqueue(q, i, ps[i].pid) ELSE q,
                        ps, n, t, i + 1)

\* Lines 409-411: the queue once its head is taken.
Dequeue(q, pid) ==
    [q EXCEPT !.front = IF q.front = q.rear THEN -1 ELSE (q.front + 1) % MAX_PROCESSES,
              !.inq = q.inq \ {pid}]

\* Line 413.
TimeSlice(remaining, quantum) == IF remaining < quantum THEN remaining ELSE quantum

SetQueue(q) ==
    /\ ready_queue' = q.rq
    /\ front' = q.front
    /\ rear' = q.rear
    /\ in_queue' = q.inq

run_round_robin_start(tq) ==
    /\ Callable("rr")
    /\ IF NoProcesses
       THEN ReturnEmpty(5)
       ELSE IF InvalidQuantum(tq)
       THEN /\ report' = "invalid_quantum"
            /\ scanned' = <<tq>>
            /\ choice' = ChoiceOf(5)
            /\ pending' = PendingAfterCall
            /\ pc' = AfterReturn(PendingAfterCall)
            /\ UNCHANGED <<regVars, heap, run, runVars, rrVars>>
       ELSE /\ time_quantum' = tq.v
            /\ procs' = SortByArrival(copy_processes(processes, process_count),
                                      process_count)
            /\ gantt_chart' = <<>>
            /\ ready_queue' = EmptyQueue
            /\ front' = -1
            /\ rear' = -1
            /\ in_queue' = {}
            /\ current_time' = 0
            /\ completed_count' = 0
            /\ last_pid' = -1
            /\ pc' = "loop"
            /\ run' = "rr"
            /\ choice' = ChoiceOf(5)
            /\ pending' = PendingAfterCall
            /\ scanned' = <<tq>>
            /\ report' = "none"
            /\ UNCHANGED <<regVars, heap, fcfs_i>>

RunRoundRobinStart == \E tq \in Tokens(-1, MaxQuantum) : run_round_robin_start(tq)

\* One iteration of the while loop of lines 393-446.
run_round_robin_tick ==
    /\ pc = "loop" /\ run = "rr"
    /\ completed_count < process_count
    /\ LET q1 == EnqueueArrived(Queue, procs, process_count, current_time, 1)
       IN IF q1.front = -1
          THEN /\ current_time' = current_time + 1
               /\ SetQueue(q1)
               /\ UNCHANGED <<procs, gantt_chart, completed_count, heap, pc>>
          ELSE \E w \in SliceWriteOutcomes("rr") :
               LET idx == q1.rq[q1.front]
                   pid == procs[idx].pid
                   q2 == Dequeue(q1, pid)
                   time_slice == TimeSlice(procs[idx].remaining_time, time_quantum)
                   now == current_time + time_slice
                   left == procs[idx].remaining_time - time_slice
                   slice == [pid |-> pid, start_time |-> current_time, end_time |-> now,
                             undef |-> {}]
                   ran == AfterSliceWrite([procs EXCEPT ![idx].remaining_time = left],
                                          slice, w)
                   q3 == EnqueueArrived(q2, ran, process_count, now, 1)
               IN /\ gantt_chart' = Append(gantt_chart, slice)
                  /\ current_time' = now
                  /\ IF left = 0
                     THEN /\ procs' = [ran EXCEPT ![idx].is_completed = TRUE,
                                                  ![idx].completion_time = now,
                                                  ![idx].undef = @ \ {"completion_time"},
                                                  ![idx].memory_block = NULL]
                          /\ completed_count' = completed_count + 1
                          /\ heap' = HeapAfterFree(procs[idx])
                          /\ SetQueue(q3)
                          /\ \E o \in FreeOutcomes(procs[idx]) :
                                pc' = IF o = "abort" \/ w = "abort"
                                      THEN "aborted" ELSE "loop"
                     ELSE /\ procs' = ran
                          /\ SetQueue(Enqueue(q3, idx, ran[idx].pid))
                          /\ pc' = IF w = "abort" THEN "aborted" ELSE "loop"
                          /\ UNCHANGED <<completed_count, heap>>
    /\ UNCHANGED <<regVars, ioVars, run, pending, last_pid, fcfs_i, time_quantum>>

run_round_robin_finish ==
    /\ pc = "loop" /\ run = "rr"
    /\ completed_count >= process_count
    /\ FinishRun(gantt_chart)
    /\ UNCHANGED <<regVars, heap, choice, scanned, run, pending, current_time,
                   completed_count, last_pid, fcfs_i, rrVars>>

\* ------------------------------------------------------------- comparison
\* compare_all_algorithms up to its first call: the FCFS average of lines
\* 571-583 is computed on locals that nothing reads afterwards.
compare_all_algorithms ==
    /\ pc = "menu"
    /\ choice' = 6
    /\ scanned' = <<>>
    /\ IF NoProcesses
       THEN /\ report' = "no_processes"
            /\ UNCHANGED <<regVars, heap, pc, run, pending, runVars, rrVars>>
       ELSE /\ processes' = reset_process_state
            /\ pending' = <<"fcfs", "sjf", "priority", "rr">>
            /\ pc' = "compare"
            /\ report' = "none"
            /\ UNCHANGED <<process_count, next_pid, heap, run, runVars, rrVars>>

\* The handler returns: its locals are gone.
Return ==
    /\ pc = "done"
    /\ pc' = AfterReturn(pending)
    /\ run' = "none"
    /\ ClearLocals
    /\ UNCHANGED <<regVars, heap, ioVars, pending>>

\* ------------------------------------------------------------------- init
NoLocals ==
    /\ procs = <<>>
    /\ gantt_chart = <<>>
    /\ current_time = 0
    /\ completed_count = 0
    /\ last_pid = -1
    /\ fcfs_i = 0
    /\ time_quantum = 0
    /\ ready_queue = EmptyQueue
    /\ front = -1
    /\ rear = -1
    /\ in_queue = {}

\* The state in which the menu waits with registry reg, reached by Len(reg)
\* accepted registrations and nothing else: every block is still allocated.
AtMenuWith(reg) ==
    /\ processes = reg
    /\ process_count = Len(reg)
    /\ next_pid = Len(reg) + 1
    /\ heap = {reg[i].memory_block : i \in 1..Len(reg)}
    /\ choice = IF Len(reg) = 0 THEN 0 ELSE 1
    /\ scanned = IF Len(reg) = 0 THEN <<>>
                 ELSE <<Token(reg[Len(reg)].arrival_time), Token(reg[Len(reg)].burst_time),
                        Token(reg[Len(reg)].priority)>>
    /\ report = IF Len(reg) = 0 THEN "none" ELSE "added"
    /\ pc = "menu"
    /\ run = "none"
    /\ pending = <<>>
    /\ NoLocals

\* The registry after registering the jobs js (<<arrival, burst, priority>> each).
Registered(js) == [i \in 1..Len(js) |-> NewProcess(i, js[i][1], js[i][2], js[i][3])]

Init == AtMenuWith(<<>>)

Next ==
    \/ add_process
    \/ run_fcfs_start
    \/ run_fcfs_step
    \/ run_fcfs_finish
    \/ run_sjf_start
    \/ run_sjf_tick
    \/ run_sjf_finish
    \/ run_priority_start
    \/ run_priority_tick
    \/ run_priority_finish
    \/ RunRoundRobinStart
    \/ run_round_robin_tick
    \/ run_round_robin_finish
    \/ compare_all_algorithms
    \/ Return

Spec == Init /\ [][Next]_vars

\* ------------------------------------------------- one run on a registry
JobParams == (0..MaxArrival) \X (1..MaxBurst) \X (0..MaxPriority)
JobSets == UNION {[1..n -> JobParams] : n \in 1..MaxJobs}

\* The worked examples of the specification's testable properties.
RRExample == <<<<0, 5, 0>>, <<0, 3, 0>>>>
SJFExample == <<<<0, 8, 0>>, <<1, 4, 0>>>>
FCFSExample == <<<<0, 5, 0>>, <<1, 3, 0>>>>
Examples == {RRExample, SJFExample, FCFSExample}

InitRun == \E js \in JobSets \cup Examples : AtMenuWith(Registered(js))

NextRun ==
    \/ run_fcfs_start
    \/ run_fcfs_step
    \/ run_fcfs_finish
    \/ run_sjf_start
    \/ run_sjf_tick
    \/ run_sjf_finish
    \/ run_priority_start
    \/ run_priority_tick
    \/ run_priority_finish
    \/ RunRoundRobinStart
    \/ run_round_robin_tick
    \/ run_round_robin_finish

SpecRun == InitRun /\ [][NextRun]_vars

\* One policy at a time, on the same registries.
NextFCFS == run_fcfs_start \/ run_fcfs_step \/ run_fcfs_finish
SpecFCFS == InitRun /\ [][NextFCFS]_vars

NextSJF == run_sjf_start \/ run_sjf_tick \/ run_sjf_finish
SpecSJF == InitRun /\ [][NextSJF]_vars

NextPriority == run_priority_start \/ run_priority_tick \/ run_priority_finish
SpecPriority == InitRun /\ [][NextPriority]_vars

\* Both preemptive policies.
NextPreemptive == NextSJF \/ NextPriority
SpecPreemptive == InitRun /\ [][NextPreemptive]_vars

\* ------------------------------------------------- a Round-Robin run on a
\* job longer than the slice buffer: one job whose burst_time is one more
\* than the MAX_PROCESSES * 10 slices the buffer holds.
LongJob == <<<<0, GanttCapacity("rr") + 1, 0>>>>
InitLong == AtMenuWith(Registered(LongJob))
NextRoundRobin == RunRoundRobinStart \/ run_round_robin_tick \/ run_round_robin_finish
SpecLong == InitLong /\ [][NextRoundRobin]_vars

\* ------------------------------------------ registration up to capacity
\* A registry MaxJobs jobs short of MAX_PROCESSES, as that many accepted
\* registrations of the job (arrival 0, burst 1, priority 0) leave it.
NearlyFull == [i \in 1..(MAX_PROCESSES - MaxJobs) |-> NewProcess(i, 0, 1, 0)]

InitCapacity == AtMenuWith(<<>>) \/ AtMenuWith(NearlyFull)

NextCapacity == add_process

SpecCapacity == InitCapacity /\ [][NextCapacity]_vars

\* ================================================================ claims
Done(name) == pc = "done" /\ run = name

\* The chart as the list of its <<pid, start_time, end_time>> slices.
Slices == [k \in 1..Len(gantt_chart) |->
              <<gantt_chart[k].pid, gantt_chart[k].start_time, gantt_chart[k].end_time>>]

RECURSIVE SumOver(_, _)
SumOver(f, k) == IF k = 0 THEN 0 ELSE f[k] + SumOver(f, k - 1)

SliceTime == SumOver([k \in 1..Len(gantt_chart) |->
                         gantt_chart[k].end_time - gantt_chart[k].start_time],
                     Len(gantt_chart))
BurstTime == SumOver([i \in 1..process_count |-> processes[i].burst_time], process_count)

\* The slot of the working copy that holds job pid.
SlotOf(pid) == CHOOSE i \in 1..Len(procs) : procs[i].pid = pid
\* The chart positions of job pid's slices.
SlicesOf(pid) == {k \in 1..Len(gantt_chart) : gantt_chart[k].pid = pid}
LastOf(S) == CHOOSE k \in S : \A m \in S : m <= k

\* C1 (as claimed): Round-Robin with quantum 2 on P1 (arrival 0, burst 5) and
\* P2 (arrival 0, burst 3) records exactly the slices (1,0,2), (2,2,4), (1,4,6),
\* (2,6,7), (1,7,8), in that order.
C1_RoundRobinExample ==
    (Done("rr") /\ processes = Registered(RRExample) /\ time_quantum = 2)
        => Slices = <<<<1, 0, 2>>, <<2, 2, 4>>, <<1, 4, 6>>, <<2, 6, 7>>, <<1, 7, 8>>>>

\* C2 (as claimed): when a run of any policy has finished, the slice durations
\* add up to the sum of the jobs' burst times.
C2_Conservation == pc = "done" => SliceTime = BurstTime

\* C3 (as claimed): when a run of any policy has finished, each job's
\* completion_time is the end_time of the last slice that carries its pid.
C3_CompletionIsLastSliceEnd ==
    pc = "done" =>
        \A i \in 1..process_count :
            /\ SlicesOf(procs[i].pid) # {}
            /\ procs[i].completion_time = gantt_chart[LastOf(SlicesOf(procs[i].pid))].end_time

\* C4 (as claimed): the metrics calculate_metrics leaves at the end of a run of
\* any policy have waiting_time >= 0 and turnaround_time >= burst_time for every job.
C4_MetricsMonotone ==
    pc = "done" =>
        \A i \in 1..process_count :
            /\ procs[i].waiting_time >= 0
            /\ procs[i].turnaround_time >= procs[i].burst_time

\* The jobs that have arrived and are not completed, before a tick.
Eligible == {i \in 1..process_count :
                procs[i].arrival_time <= current_time /\ ~procs[i].is_completed}

\* Slot i alone executes in this step: one unit of its remaining time goes.
Executes(i) ==
    /\ procs'[i].remaining_time = procs[i].remaining_time - 1
    /\ \A j \in 1..process_count : j # i => procs'[j].remaining_time = procs[j].remaining_time
    /\ gantt_chart'[Len(gantt_chart')].pid = procs[i].pid

\* C5: at every tick of a preemptive SJF run with an arrived, unfinished job,
\* the job executed has the least remaining_time among those jobs, the lowest
\* pid among equals; and P1 (arrival 0, burst 8), P2 (arrival 1, burst 4) gives
\* slices (1,0,1), (2,1,5), (1,5,12) and completion times 12 and 5.
C5_SJFTick ==
    (run = "sjf" /\ pc = "loop" /\ pc' = "loop" /\ Eligible # {}) =>
        \E i \in Eligible :
            /\ \A j \in Eligible :
                  \/ procs[i].remaining_time < procs[j].remaining_time
                  \/ /\ procs[i].remaining_time = procs[j].remaining_time
                     /\ procs[i].pid <= procs[j].pid
            /\ Executes(i)
C5_SJFExample ==
    (Done("sjf") /\ processes = Registered(SJFExample)) =>
        /\ Slices = <<<<1, 0, 1>>, <<2, 1, 5>>, <<1, 5, 12>>>>
        /\ procs[SlotOf(1)].completion_time = 12
        /\ procs[SlotOf(2)].completion_time = 5
C6_PriorityTick ==
    (run = "priority" /\ pc = "loop" /\ pc' = "loop" /\ Eligible # {}) =>
        \E i \in Eligible :
            /\ \A j \in Eligible :
                  \/ procs[i].priority < procs[j].priority
                  \/ /\ procs[i].priority = procs[j].priority
                     /\ procs[i].pid <= procs[j].pid
            /\ Executes(i)
            /\ \A j \in Eligible :
                  (/\ procs[j].priority = procs[i].priority
                   /\ procs[j].arrival_time = procs[i].arrival_time
                   /\ procs[j].pid < procs[i].pid) => FALSE
\* C6: every step of a Priority run executes the eligible job of least
\* priority value, the lowest pid among equals.
C6_PriorityTieBreak == [][C6_PriorityTick]_vars
C6_Witness ==
    /\ run = "priority" /\ pc = "loop"
    /\ process_count = 2
    /\ procs[1].priority = procs[2].priority
    /\ procs[1].arrival_time = procs[2].arrival_time
    /\ procs[1].pid < procs[2].pid
    /\ current_time > procs[1].arrival_time
    /\ procs[1].remaining_time < procs[1].burst_time
    /\ procs[1].remaining_time > 0
    /\ procs[2].remaining_time = procs[2].burst_time

\* arrival_time and burst_time of job pid, from the registry.
ArrivalOf(pid) == processes[pid].arrival_time
BurstOf(pid) == processes[pid].burst_time

\* C7: an FCFS run records one slice per job, by arrival_time ascending and
\* pid ascending among equal arrival times; each slice starts at the later of
\* the previous slice's end (0 for the first) and the job's arrival_time, ends
\* burst_time later, and that end is the job's completion_time; P1 (arrival 0,
\* burst 5), P2 (arrival 1, burst 3) gives (1,0,5), (2,5,8), waiting times 0, 4.
C7_FCFSSchedule ==
    Done("fcfs") =>
        /\ Len(gantt_chart) = process_count
        /\ {gantt_chart[k].pid : k \in 1..Len(gantt_chart)}
              = {processes[i].pid : i \in 1..process_count}
        /\ \A k \in 1..Len(gantt_chart) :
              LET e == gantt_chart[k]
                  before == IF k = 1 THEN 0 ELSE gantt_chart[k - 1].end_time
              IN /\ e.start_time = IF before > ArrivalOf(e.pid)
                                   THEN before ELSE ArrivalOf(e.pid)
                 /\ e.end_time = e.start_time + BurstOf(e.pid)
                 /\ procs[SlotOf(e.pid)].completion_time = e.end_time
                 /\ \A m \in 1..(k - 1) :
                       \/ ArrivalOf(gantt_chart[m].pid) < ArrivalOf(e.pid)
                       \/ /\ ArrivalOf(gantt_chart[m].pid) = ArrivalOf(e.pid)
                          /\ gantt_chart[m].pid < e.pid
        /\ processes = Registered(FCFSExample) =>
              /\ Slices = <<<<1, 0, 5>>, <<2, 5, 8>>>>
              /\ procs[SlotOf(1)].waiting_time = 0
              /\ procs[SlotOf(2)].waiting_time = 4
C7_Witness ==
    /\ Done("fcfs") /\ processes = Registered(FCFSExample)
    /\ Len(gantt_chart) = 2

\* C8: with no job registered, run FCFS, run SJF, run Priority, run Round-Robin
\* and compare-all each report the empty-input error and return: no slice, no
\* clock, no other state changes, and Round-Robin reads no quantum.
C8_EmptyStep ==
    (pc = "menu" /\ process_count = 0 /\ choice' \in 2..6) =>
        /\ report' = "no_processes"
        /\ scanned' = <<>>
        /\ UNCHANGED <<regVars, heap, pc, run, pending, runVars, rrVars>>
\* C8: every run or comparison chosen on an empty registry only reports the
\* empty-input error.
C8_EmptyInput == [][C8_EmptyStep]_vars
C8_Witness ==
    /\ process_count = 0 /\ pc = "menu"
    /\ choice = 5 /\ report = "no_processes" /\ scanned = <<>>
    /\ gantt_chart = <<>> /\ current_time = 0

Rejections == {"capacity", "invalid_arrival", "invalid_burst", "invalid_priority"}

\* C9: a registration is rejected when arrival < 0, burst <= 0, priority < 0 or
\* the registry already holds MAX_PROCESSES jobs (and only then), and a rejected
\* registration leaves the job count, the stored jobs and the next pid as they were.
C9_AddStep ==
    (pc = "menu" /\ choice' = 1) =>
        LET full == process_count >= MAX_PROCESSES
            read == Len(scanned')
            badArrival == read >= 1 /\ (~scanned'[1].ok \/ scanned'[1].v < 0)
            badBurst == read >= 2 /\ (~scanned'[2].ok \/ scanned'[2].v <= 0)
            badPriority == read >= 3 /\ (~scanned'[3].ok \/ scanned'[3].v < 0)
        IN /\ report' \in Rejections \cup {"added"}
           /\ (full \/ badArrival \/ badBurst \/ badPriority) <=> report' \in Rejections
           /\ full => report' = "capacity" /\ read = 0
           /\ report' \in Rejections =>
                 /\ process_count' = process_count
                 /\ processes' = processes
                 /\ next_pid' = next_pid
                 /\ heap' = heap
           /\ report' = "added" =>
                 /\ read = 3
                 /\ process_count' = process_count + 1
                 /\ Len(processes') = process_count'
\* C9: every add_process step rejects exactly the invalid registrations and
\* leaves the registry unchanged when it rejects.
C9_RejectedRegistration == [][C9_AddStep]_vars
C9_Witness ==
    /\ report = "capacity" /\ choice = 1
    /\ process_count = MAX_PROCESSES
    /\ Len(processes) = MAX_PROCESSES
    /\ next_pid = MAX_PROCESSES + 1

\* C10: a Round-Robin run given a quantum <= 0 reports a validation error and
\* returns: no slice, no clock advance, no change to any job.
C10_BadQuantumStep ==
    (/\ pc = "menu" /\ process_count > 0 /\ choice' = 5
     /\ Len(scanned') = 1
     /\ (~scanned'[1].ok \/ scanned'[1].v <= 0)) =>
        /\ report' = "invalid_quantum"
        /\ UNCHANGED <<regVars, heap, pc, run, pending, runVars, rrVars>>
\* C10: every Round-Robin step given a quantum <= 0 only reports the
\* validation error.
C10_InvalidQuantum == [][C10_BadQuantumStep]_vars
C10_Witness ==
    /\ pc = "menu" /\ process_count > 0
    /\ choice = 5 /\ report = "invalid_quantum"
    /\ scanned = <<Token(0)>>
    /\ gantt_chart = <<>> /\ current_time = 0 /\ procs = <<>>

\* C11 (as claimed): a policy run made after earlier runs and comparisons yields
\* what it yields when it is the first run on the same jobs.  A first run always
\* goes through to its results (pc never becomes "aborted" under SpecRun), so a
\* later run does too.
C11_LaterRunAsFirst == pc # "aborted"

\* C12 (as claimed): no step of a policy run or of compare-all (menu choices 2
\* to 6) changes the job count or any field of any registered job.
C12_RegistryStep ==
    choice' \in 2..6 => (processes' = processes /\ process_count' = process_count)
C12_RegistryUntouched == [][C12_RegistryStep]_vars

\* C13: after every registration step, accepted or rejected, the k-th stored
\* job has pid k and the next pid is one more than the job count; an accepted
\* registration stores its job under the pid that was next, and a rejected one
\* leaves the next pid as it was.
C13_PidStep ==
    /\ Len(processes') = process_count'
    /\ \A k \in 1..process_count' : processes'[k].pid = k
    /\ next_pid' = process_count' + 1
    /\ report' = "added" =>
          /\ process_count' = process_count + 1
          /\ processes'[process_count'].pid = next_pid
          /\ \A k \in 1..process_count : processes'[k] = processes[k]
    /\ report' \in Rejections => next_pid' = next_pid
C13_SequentialPids == [][C13_PidStep]_vars
C13_Witness ==
    /\ report \in Rejections /\ choice = 1
    /\ process_count = MaxJobs
    /\ processes[MaxJobs].pid = MaxJobs
    /\ next_pid = MaxJobs + 1

\* C14 (as claimed): when the scheduling loop of a Round-Robin run has exited
\* and the metrics are computed, every job has remaining_time = 0 and is marked
\* completed.  (The loop does exit: each dispatch either lowers a remaining_time
\* or raises completed_count.)
C14_RoundRobinCompletesAll ==
    Done("rr") =>
        \A i \in 1..process_count :
            procs[i].remaining_time = 0 /\ procs[i].is_completed

\* The slots waiting in a ready queue, head first.
Waiting(rq, f, r) ==
    IF f = -1 THEN <<>>
    ELSE [k \in 1..(((r - f) % MAX_PROCESSES) + 1) |-> rq[(f + k - 1) % MAX_PROCESSES]]

\* C15 (as claimed): when a Round-Robin dispatch ends at time t with its job
\* unfinished, every job that arrived during the slice (not completed, not
\* queued, arrival_time <= t) stands in the ready queue ahead of every entry of
\* the job that has just run, so it is dispatched before that job runs again.
C15_RequeueStep ==
    (/\ run = "rr" /\ pc = "loop" /\ pc' = "loop"
     /\ Len(gantt_chart') = Len(gantt_chart) + 1) =>
        LET j == SlotOf(gantt_chart'[Len(gantt_chart')].pid)
            Q == Waiting(ready_queue', front', rear')
            arrivals == {i \in 1..process_count :
                            /\ i # j
                            /\ ~procs[i].is_completed
                            /\ procs[i].pid \notin in_queue
                            /\ procs[i].arrival_time > current_time
                            /\ procs[i].arrival_time <= current_time'}
        IN procs'[j].remaining_time > 0 =>
              \A i \in arrivals : \A k \in 1..Len(Q) :
                  Q[k] = j => \E m \in 1..(k - 1) : Q[m] = i
C15_ArrivalsBeforeRequeue == [][C15_RequeueStep]_vars

\* C16 (as claimed): every slice a finished run of any policy has recorded has
\* end_time > start_time, and a Round-Robin slice is at most the quantum long.
C16_SlicesPositive ==
    pc = "done" =>
        \A k \in 1..Len(gantt_chart) :
            /\ gantt_chart[k].end_time > gantt_chart[k].start_time
            /\ run = "rr" =>
                  gantt_chart[k].end_time - gantt_chart[k].start_time <= time_quantum

\* Time job pid has executed so far, and the time inside its slices.
Executed(pid) == processes[pid].burst_time - procs[SlotOf(pid)].remaining_time
SliceTimeOf(pid) ==
    SumOver([k \in 1..Len(gantt_chart) |->
                IF gantt_chart[k].pid = pid
                THEN gantt_chart[k].end_time - gantt_chart[k].start_time ELSE 0],
            Len(gantt_chart))

\* C17 (as claimed): in the chart of a finished run of any policy the slices
\* of each job hold exactly the time units in which that job executed, so no
\* slice runs on through idle time.  A job has executed for burst_time less
\* remaining_time (for burst_time under run_fcfs, which keeps no remaining_time).
C17_NoIdleInsideSlices ==
    pc = "done" =>
        \A i \in 1..process_count :
            SliceTimeOf(processes[i].pid)
                = IF run = "fcfs" THEN processes[i].burst_time
                                  ELSE Executed(processes[i].pid)

\* C18 (as claimed): in every step of a run's loop, for each job, remaining_time
\* does not increase, a completed job stays completed, completion_time is set
\* to the clock in the step in which remaining_time becomes 0, and the
\* completion_time of a completed job is not written again.
C18_JobStep ==
    (pc = "loop" /\ pc' \in {"loop", "aborted"}) =>
        \A i \in 1..process_count :
            /\ procs'[i].remaining_time <= procs[i].remaining_time
            /\ procs[i].is_completed => procs'[i].is_completed
            /\ (procs[i].remaining_time > 0 /\ procs'[i].remaining_time = 0) =>
                  /\ procs'[i].completion_time = current_time'
                  /\ "completion_time" \notin procs'[i].undef
            /\ procs[i].is_completed =>
                  procs'[i].completion_time = procs[i].completion_time
C18_CompletionSetOnce == [][C18_JobStep]_vars

\* The latest arrival_time among the registered jobs.
LatestArrival ==
    CHOOSE a \in {processes[i].arrival_time : i \in 1..process_count} :
        \A i \in 1..process_count : processes[i].arrival_time <= a

\* The steps of a preemptive run that is under way.
PreemptiveProgress ==
    run_sjf_tick \/ run_sjf_finish \/ run_priority_tick \/ run_priority_finish

\* What a preemptive run with working copy ps has still to do at time t: the
\* remaining time of its jobs, and the wait for the latest arrival.
Outstanding(ps, t) ==
    SumOver([i \in 1..process_count |-> ps[i].remaining_time], process_count)
        + (IF t < LatestArrival THEN LatestArrival - t ELSE 0)

\* C19: a preemptive SJF or Priority run on registered jobs terminates: while
\* it is in its loop a next step exists, and every iteration lowers what is
\* outstanding, which is never negative.  The clock never passes the latest
\* arrival_time plus the sum of the burst times, and when the loop has exited
\* every job is completed with remaining_time = 0.
C19_Bounded ==
    (run \in {"sjf", "priority"} /\ pc \in {"loop", "done"}) =>
        /\ current_time <= LatestArrival + BurstTime
        /\ Outstanding(procs, current_time) >= 0
        /\ pc = "loop" => ENABLED PreemptiveProgress
        /\ pc = "done" =>
              /\ completed_count = process_count
              /\ \A i \in 1..process_count :
                    procs[i].remaining_time = 0 /\ procs[i].is_completed
C19_LoopStep ==
    (run \in {"sjf", "priority"} /\ pc = "loop") =>
        \/ pc' = "done"
        \/ /\ pc' = "loop"
           /\ Outstanding(procs', current_time') < Outstanding(procs, current_time)
C20_IdleStep ==
    /\ (/\ run \in {"sjf", "priority", "rr"} /\ pc = "loop" /\ pc' = "loop"
        /\ current_time' > current_time
        /\ \A i \in 1..process_count :
              procs'[i].remaining_time = procs[i].remaining_time) =>
          \A i \in 1..process_count :
              procs[i].arrival_time <= current_time => procs[i].is_completed
    /\ (/\ run = "fcfs" /\ pc = "loop"
        /\ Len(gantt_chart') = Len(gantt_chart) + 1
        /\ gantt_chart'[Len(gantt_chart')].start_time > current_time) =>
          \A i \in 1..process_count :
              procs[i].arrival_time < gantt_chart'[Len(gantt_chart')].start_time =>
                  \E k \in 1..Len(gantt_chart) : gantt_chart[k].pid = procs[i].pid
C21_CompletedCountExact ==
    (run \in {"sjf", "priority", "rr"} /\ pc \in {"loop", "done"}) =>
        completed_count = Cardinality({i \in 1..process_count : procs[i].is_completed})

\* C22 (as claimed): while a Round-Robin run is in its loop, the ready queue
\* holds no slot twice and no completed job, in_queue holds exactly the pids
\* of the slots in the queue, and the queue has at most process_count entries.
C22_QueueWellFormed ==
    (run = "rr" /\ pc = "loop") =>
        LET Q == Waiting(ready_queue, front, rear)
        IN /\ \A k, m \in 1..Len(Q) : Q[k] = Q[m] => k = m
           /\ \A k \in 1..Len(Q) : ~procs[Q[k]].is_completed
           /\ in_queue = {procs[Q[k]].pid : k \in 1..Len(Q)}
           /\ Len(Q) <= process_count

\* C23 (as claimed): no run of any policy writes more slices than its slice
\* buffer holds, MAX_PROCESSES * 2 in run_fcfs and MAX_PROCESSES * 10 in the
\* other runs, whatever the burst times and the quantum.
C23_SlicesFitBuffer ==
    run # "none" => Len(gantt_chart) <= GanttCapacity(run)

\* C24 (as claimed): over any sequence of registrations and runs, the memory
\* block allocated for a job at registration is freed at most once: every call
\* of free() on a job's block, by any run, finds the block still allocated.
C24_FreeStep ==
    \A i \in 1..Len(procs) :
        (/\ pc = "loop"
         /\ i <= Len(procs')
         /\ procs'[i].pid = procs[i].pid
         /\ procs[i].memory_block # NULL
         /\ procs'[i].memory_block = NULL) => procs[i].memory_block \in heap
C24_BlockFreedOnce == [][C24_FreeStep]_vars
====
